---- MODULE Spec2Model ----
(***************************************************************************)
(* NativeEmbedder (server/utils/EmbeddingEngines/native/index.js).         *)
(*                                                                         *)
(* One embedder session, a temporary directory of scratch files, the       *)
(* transformers.js `env` object, and a fixed set of call frames.  Every    *)
(* action is one run-to-completion segment of an async method: it starts   *)
(* where an `await` resumes and ends where the next `await` suspends.      *)
(*                                                                         *)
(* Strings are sequences of character codes.  A scratch file is a sequence *)
(* of JSON tokens: the punctuation "[", "]", "," and number literals.      *)
(***************************************************************************)
EXTENDS Integers, Sequences, FiniteSets, TLC

\* ---------------------------------------------------------------- bounds
MaxTexts == 3      \* longest textChunks list handed to embedChunks
MaxBatch == 2      \* largest maxConcurrentChunks of a registry entry
MaxFaults == 3     \* environment faults (failed fetch, failed append, empty output) of one call
MaxConcFaults == 1 \* environment faults while calls run concurrently
MaxConcTexts == 2  \* longest textChunks list of a call that runs concurrently with another
Dim == 1           \* output dimensionality of the embedding model
MaxQueryTexts == 2 \* longest array of strings handed to embedTextInput
MaxMixedFaults == 2 \* environment faults while calls of different methods interleave
MaxQueryFaults == 1 \* environment faults of one embedTextInput call on an array

Calls == {1, 2}    \* call frames: the calls made on the session

\* ------------------------------------------------------- program constants
defaultModel == "Xenova/all-MiniLM-L6-v2"
fallbackHost == "https://cdn.anythingllm.com/support/models/"
fallbackPathTemplate == "{model}/"
primaryHost == "https://huggingface.co/"
primaryPathTemplate == "{model}/resolve/{revision}/"

\* JavaScript null / false / undefined where a string is expected
NULL == "null"
FALSE_ == "false"
UNSET == "undefined"

\* ----------------------------------------------------------- JSON values
\* A JavaScript value as far as this file handles them: null, a number, an array.
JNull == [k |-> "null", n |-> 0, a |-> <<>>]
Num(x) == [k |-> "num", n |-> x, a |-> <<>>]
Arr(s) == [k |-> "arr", n |-> 0, a |-> s]

\* tokens of the JSON text
LB == 0 - 1
RB == 0 - 2
CM == 0 - 3

Min(a, b) == IF a < b THEN a ELSE b

\* JSON.stringify of a value
RECURSIVE JSONstringify(_)
RECURSIVE stringifyElements(_)
stringifyElements(s) ==
    IF s = <<>> THEN <<>>
    ELSE IF Len(s) = 1 THEN JSONstringify(s[1])
    ELSE JSONstringify(s[1]) \o <<CM>> \o stringifyElements(Tail(s))

JSONstringify(v) ==
    IF v.k = "num" THEN <<v.n>>
    ELSE IF v.k = "arr" THEN <<LB>> \o stringifyElements(v.a) \o <<RB>>
    ELSE <<>>

\* JSON.parse: recursive descent over the tokens; ok = FALSE is a SyntaxError
ParseFail == [ok |-> FALSE, val |-> JNull, next |-> 0]

RECURSIVE parseValue(_, _)
RECURSIVE parseElements(_, _, _)
parseValue(toks, i) ==
    IF i > Len(toks) THEN ParseFail
    ELSE IF toks[i] >= 0 THEN [ok |-> TRUE, val |-> Num(toks[i]), next |-> i + 1]
    ELSE IF toks[i] = LB THEN
        IF i + 1 <= Len(toks) /\ toks[i + 1] = RB
        THEN [ok |-> TRUE, val |-> Arr(<<>>), next |-> i + 2]
        ELSE parseElements(toks, i + 1, <<>>)
    ELSE ParseFail

parseElements(toks, i, acc) ==
    LET r == parseValue(toks, i) IN
    IF ~r.ok THEN ParseFail
    ELSE IF r.next > Len(toks) THEN ParseFail
    ELSE IF toks[r.next] = CM THEN parseElements(toks, r.next + 1, Append(acc, r.val))
    ELSE IF toks[r.next] = RB
        THEN [ok |-> TRUE, val |-> Arr(Append(acc, r.val)), next |-> r.next + 1]
    ELSE ParseFail

JSONparse(toks) ==
    LET r == parseValue(toks, 1) IN
    IF r.ok /\ r.next = Len(toks) + 1 THEN r ELSE ParseFail

\* flat() left out: the parsed array of batches is returned as it is
flat_Omitted(s) == s

\* Array.prototype.flat(): one level
RECURSIVE flat(_)
flat(s) ==
    IF s = <<>> THEN <<>>
    ELSE (IF s[1].k = "arr" THEN s[1].a ELSE <<s[1]>>) \o flat(Tail(s))

\* JavaScript truthiness of a value
Truthy(v) == v.k = "arr" \/ (v.k = "num" /\ v.n # 0)

\* ------------------------------------------------------------- strings
Texts == {<<1>>, <<2>>}

\* a number that identifies a string
RECURSIVE Code(_)
Code(s) == IF s = <<>> THEN 0 ELSE s[1] + 4 * Code(Tail(s))

\* the feature-extraction pipeline with mean pooling and normalisation: one
\* vector of Dim numbers per input string, a function of the string alone
Embed(text) == Arr([d \in 1..Dim |-> Num(10 * Code(text) + d)])

\* ------------------------------------------------------------- registry
supportedModels ==
    [id \in {defaultModel, "Xenova/nomic-embed-text-v1"} |->
        IF id = defaultModel
        THEN [id |-> id, chunkPrefix |-> <<>>, queryPrefix |-> <<>>]
        ELSE [id |-> id, chunkPrefix |-> <<3, 2>>, queryPrefix |-> <<3, 1>>]]

\* names every object literal inherits from Object.prototype
ObjectPrototype == {"constructor", "toString"}

\* what an inherited member looks like to the reader of a descriptor: a
\* function object, which has none of a descriptor's fields
InheritedMember == [id |-> UNSET, chunkPrefix |-> <<>>, queryPrefix |-> <<>>]

\* is NativeEmbedder.supportedModels?.[key] truthy: own keys and inherited ones
hasMember(key) == key \in DOMAIN supportedModels \/ key \in ObjectPrototype

\* NativeEmbedder.supportedModels[key], for a key that hasMember
member(key) ==
    IF key \in DOMAIN supportedModels THEN supportedModels[key] ELSE InheritedMember

\* values of EMBEDDING_MODEL_PREF that name a registry entry, or nothing
EnvPrefs == {UNSET, "", "unsupported/model"} \cup DOMAIN supportedModels

\* unset (the default model), and the model that has prefixes
SessionPrefs == {UNSET, "Xenova/nomic-embed-text-v1"}

\* every kind of value EMBEDDING_MODEL_PREF can hold
AnyEnvPrefs == EnvPrefs \cup ObjectPrototype

getEmbeddingModel(envPref) ==
    LET envModel == IF envPref = UNSET THEN defaultModel ELSE envPref IN
    IF hasMember(envModel) THEN envModel ELSE defaultModel

getEmbedderInfo(envPref) == member(getEmbeddingModel(envPref))

queryPrefix(m) ==
    IF m \in DOMAIN supportedModels /\ supportedModels[m].queryPrefix # <<>>
    THEN supportedModels[m].queryPrefix ELSE <<>>

\* an argument of embedTextInput: a string, or an array of strings
Str(text) == <<"string", text>>
StrArray(texts) == <<"array", texts>>
isArray(textInput) == textInput[1] = "array"
valueOf(textInput) == textInput[2]

\* the prefix followed by a blank
applyQueryPrefix_Delimited(m, textInput) ==
    IF queryPrefix(m) = <<>> THEN textInput
    ELSE IF isArray(textInput)
         THEN StrArray([i \in 1..Len(valueOf(textInput)) |-> queryPrefix(m) \o <<0>> \o valueOf(textInput)[i]])
         ELSE Str(queryPrefix(m) \o <<0>> \o valueOf(textInput))

\* #applyQueryPrefix
applyQueryPrefix(m, textInput) ==
    IF queryPrefix(m) = <<>> THEN textInput
    ELSE IF isArray(textInput)
         THEN StrArray([i \in 1..Len(valueOf(textInput)) |-> queryPrefix(m) \o valueOf(textInput)[i]])
         ELSE Str(queryPrefix(m) \o valueOf(textInput))

\* helpers.toChunks: consecutive slices of `size` elements, the last one shorter
\* (no slice at all when size is undefined, written 0: the count is NaN)
toChunks(arr, size) ==
    IF size = 0 THEN <<>>
    ELSE [i \in 1..((Len(arr) + size - 1) \div size) |->
            SubSeq(arr, (i - 1) * size + 1, Min(i * size, Len(arr)))]


\* --------------------------------------------------------------- state
VARIABLES
    envPref,               \* process.env.EMBEDDING_MODEL_PREF
    model,                 \* this.model
    maxConcurrentChunks,   \* this.maxConcurrentChunks
    modelDownloaded,       \* this.modelDownloaded
    envRemoteHost,         \* env.remoteHost of @xenova/transformers
    envRemotePathTemplate, \* env.remotePathTemplate
    files,                 \* <storage>/tmp: file name -> [exists, content]
    uuid,                  \* number of names v4() has handed out
    frames,                \* call frame of each call: locals and resume point
    budget                 \* environment faults the run may still suffer

vars == <<envPref, model, maxConcurrentChunks, modelDownloaded, envRemoteHost,
          envRemotePathTemplate, files, uuid, frames, budget>>

FileNames == 1..Cardinality(Calls)
NoFile == [exists |-> FALSE, content |-> <<>>]

\* what a failed fetch rejects with
Errors == {"NetworkError", "UnsupportedModel"}

IdleFrame ==
    [pc |-> "idle", kind |-> "none", textChunks |-> <<>>, chunks |-> <<>>,
     chunkLen |-> 0, idx |-> 0, tmpFilePath |-> 0,
     pipeline |-> NULL, output |-> JNull, data |-> <<>>, embeddingResults |-> JNull,
     result |-> JNull, error |-> NULL,
     hostOverride |-> NULL, fetchLog |-> <<>>, events |-> <<>>,
     textInput |-> Str(<<>>), prefixed |-> Str(<<>>),
     outer |-> "none", outerResult |-> JNull,
     saw |-> [d \in Calls |-> "idle"]]

\* constructor, EMBEDDING_MODEL_PREF being one of prefs
Constructed(prefs) ==
    /\ envPref \in prefs
    /\ model = getEmbeddingModel(envPref)
    /\ IF model \in DOMAIN supportedModels
       THEN maxConcurrentChunks \in 1..MaxBatch
       ELSE maxConcurrentChunks = 0
    /\ modelDownloaded \in BOOLEAN
    /\ envRemoteHost = primaryHost
    /\ envRemotePathTemplate = primaryPathTemplate
    /\ files = [p \in FileNames |-> NoFile]
    /\ uuid = 0
    /\ frames = [c \in Calls |-> IdleFrame]

Init == Constructed(SessionPrefs) /\ budget = MaxFaults

InitConc == Constructed({UNSET}) /\ budget = MaxConcFaults

InitMixed == Constructed({UNSET}) /\ budget = MaxMixedFaults

InitQuery == Constructed(EnvPrefs) /\ budget = MaxQueryFaults

InitResolve == Constructed(AnyEnvPrefs) /\ budget = MaxFaults

\* ------------------------------------------------------ private helpers
\* one fixed file name for every call
tempfilePath_Fixed(u) == 1

\* #tempfilePath: a file name no earlier call was given
tempfilePath(u) == u + 1

\* the file replaced by the data instead of extended by it
writeToTempfile_Truncate(fs, filePath, data, ok) ==
    IF ok
    THEN [fs EXCEPT ![filePath] = [exists |-> TRUE, content |-> data]]
    ELSE fs

\* fs.promises.appendFile inside #writeToTempfile; a failure is caught and logged
writeToTempfile(fs, filePath, data, ok) ==
    IF ok
    THEN [fs EXCEPT ![filePath] = [exists |-> TRUE, content |-> @.content \o data]]
    ELSE fs

\* the object #fetchWithHost resolves to
fetchWithHost(hostOverride, outcome) ==
    IF outcome = "ok"
    THEN [pipeline |-> "pipeline", retry |-> FALSE_, error |-> NULL]
    ELSE [pipeline |-> NULL,
          retry |-> IF hostOverride = NULL THEN fallbackHost ELSE FALSE_,
          error |-> outcome]

\* embedderClient retrying after every failed fetch
embedderClientStep_Recursive(n, resp) ==
    IF resp.pipeline # NULL THEN "return"
    ELSE IF n <= 2 THEN "retry"
    ELSE "throw"

\* embedderClient after its n-th fetch has resolved to resp
embedderClientStep(n, resp) ==
    IF resp.pipeline # NULL THEN "return"
    ELSE IF n = 1 /\ resp.retry # FALSE_ THEN "retry"
    ELSE "throw"

\* the flag cleared before the fallback attempt
modelDownloadedAfter_Retry(step, downloaded) ==
    IF step = "return" THEN TRUE ELSE IF step = "retry" THEN FALSE ELSE downloaded

\* the flag cleared when the download failed
modelDownloadedAfter_Reset(step, downloaded) ==
    IF step = "return" THEN TRUE ELSE IF step = "throw" THEN FALSE ELSE downloaded

\* this.modelDownloaded once embedderClient has taken that step (lines 186-199)
modelDownloadedAfter(step, downloaded) ==
    IF step = "return" THEN TRUE ELSE downloaded

\* the two separators exchanged
separatorAfter_Swapped(chunkLen, idx) ==
    IF chunkLen - 1 # idx THEN "w_close" ELSE "w_comma"

\* which separator follows the fragment of batch idx
separatorAfter(chunkLen, idx) ==
    IF chunkLen - 1 # idx THEN "w_comma" ELSE "w_close"

Event(op, idx, ok) == [op |-> op, idx |-> idx, ok |-> ok]

\* the buffers of the previous iteration kept
EnterClient_Retain(f, i) ==
    [f EXCEPT !.pc = "fetch_import", !.idx = i,
              !.hostOverride = NULL, !.fetchLog = <<>>,
              !.events = Append(@, [op |-> "acquire", idx |-> i, ok |-> TRUE])]

\* entry of embedderClient in iteration i, up to the await of the first fetch
EnterClient(f, i) ==
    [f EXCEPT !.pc = "fetch_import", !.idx = i,
              !.pipeline = NULL, !.output = JNull, !.data = <<>>,
              !.hostOverride = NULL, !.fetchLog = <<>>,
              !.events = Append(@, Event("acquire", i, TRUE))]

\* the read-back taken from the first scratch file of the session
Final_Stale(f, fs) ==
    LET p == 1
        g == [f EXCEPT !.pipeline = NULL, !.output = JNull, !.data = <<>>]
    IN  IF ~fs[p].exists
        THEN [frame |-> [g EXCEPT !.pc = "failed", !.error = "ENOENT"], files |-> fs]
        ELSE LET r == JSONparse(fs[p].content) IN
             IF ~r.ok
             THEN [frame |-> [g EXCEPT !.pc = "failed", !.error = "SyntaxError"],
                   files |-> fs]
             ELSE [frame |-> [g EXCEPT !.pc = "done",
                                  !.embeddingResults = r.val,
                                  !.result = IF Len(r.val.a) > 0
                                             THEN Arr(flat(r.val.a)) ELSE JNull],
                   files |-> [fs EXCEPT ![p] = NoFile]]

\* lines 273-277: read back, parse, delete, flatten
Final(f, fs) ==
    LET p == f.tmpFilePath
        g == [f EXCEPT !.pipeline = NULL, !.output = JNull, !.data = <<>>]
    IN  IF ~fs[p].exists
        THEN [frame |-> [g EXCEPT !.pc = "failed", !.error = "ENOENT"], files |-> fs]
        ELSE LET r == JSONparse(fs[p].content) IN
             IF ~r.ok
             THEN [frame |-> [g EXCEPT !.pc = "failed", !.error = "SyntaxError"],
                   files |-> fs]
             ELSE [frame |-> [g EXCEPT !.pc = "done",
                                  !.embeddingResults = r.val,
                                  !.result = IF Len(r.val.a) > 0
                                             THEN Arr(flat(r.val.a)) ELSE JNull],
                   files |-> [fs EXCEPT ![p] = NoFile]]

\* the loop stepping over every other batch
AfterBatch_Skip(f, fs) ==
    IF f.idx + 2 < f.chunkLen
    THEN [frame |-> EnterClient(f, f.idx + 2), files |-> fs]
    ELSE Final(f, fs)

\* end of one loop iteration: the next one, or the code after the loop
AfterBatch(f, fs) ==
    IF f.idx + 1 < f.chunkLen
    THEN [frame |-> EnterClient(f, f.idx + 1), files |-> fs]
    ELSE Final(f, fs)

\* embedChunks from its entry to its first await
EnterEmbedChunks(f, textChunks, u, fs) ==
    LET chunks == toChunks(textChunks, maxConcurrentChunks)
        g == [f EXCEPT !.textChunks = textChunks, !.tmpFilePath = tempfilePath(u),
                       !.chunks = chunks, !.chunkLen = Len(chunks)]
    IN  IF Len(chunks) = 0 THEN Final(g, fs)
        ELSE [frame |-> [g EXCEPT !.pc = "w_open", !.idx = 0], files |-> fs]

Session == <<envPref, model, maxConcurrentChunks>>
Env == <<envRemoteHost, envRemotePathTemplate>>

InputLists == UNION {[1..n -> Texts] : n \in 0..MaxTexts}
\* arrays of strings handed to embedTextInput
QueryLists == UNION {[1..n -> Texts] : n \in 0..MaxQueryTexts}
\* lists whose neighbouring texts differ
ConcInputLists ==
    {[i \in 1..n |-> IF i % 2 = 1 THEN t ELSE CHOOSE u \in Texts : u # t] :
        n \in 0..MaxConcTexts, t \in Texts}

\* --------------------------------------------------------------- actions
\* frames are taken in order
CanStart(c) ==
    /\ frames[c].pc = "idle"
    /\ \A d \in Calls : d < c => frames[d].pc # "idle"

\* how far the other calls are when a call is made (history, read by no action)
Progress(f) ==
    IF f.pc \in {"idle", "done", "failed"} THEN f.pc ELSE "running"

Called(c, kind) ==
    [frames[c] EXCEPT !.kind = kind, !.saw = [d \in Calls |-> Progress(frames[d])]]

\* a direct call of the public embedderClient
embedderClient(c) ==
    /\ CanStart(c)
    /\ frames' = [frames EXCEPT ![c] =
          EnterClient(Called(c, "embedderClient"), 0)]
    /\ UNCHANGED <<Session, Env, modelDownloaded, files, uuid, budget>>

embedChunks(c, textChunks) ==
    /\ CanStart(c)
    /\ LET r == EnterEmbedChunks(Called(c, "embedChunks"), textChunks, uuid, files)
       IN  /\ frames' = [frames EXCEPT ![c] = r.frame]
           /\ files' = r.files
    /\ uuid' = uuid + 1
    /\ UNCHANGED <<Session, Env, modelDownloaded, budget>>

embedTextInput(c, textInput) ==
    /\ CanStart(c)
    /\ LET prefixed == applyQueryPrefix(model, textInput)
           r == EnterEmbedChunks([Called(c, "embedTextInput") EXCEPT
                                                   !.textInput = textInput,
                                                   !.prefixed = prefixed,
                                                   !.outer = "pending"],
                                 IF isArray(prefixed) THEN valueOf(prefixed) ELSE <<valueOf(prefixed)>>,
                                 uuid, files)
       IN  /\ frames' = [frames EXCEPT ![c] = r.frame]
           /\ files' = r.files
    /\ uuid' = uuid + 1
    /\ UNCHANGED <<Session, Env, modelDownloaded, budget>>

\* line 228, once the awaited embedChunks has settled
embedTextInputReturn(c) ==
    LET f == frames[c] IN
    /\ f.outer = "pending"
    /\ f.pc \in {"done", "failed"}
    /\ frames' = [frames EXCEPT ![c] =
          IF f.pc = "failed" THEN [f EXCEPT !.outer = "failed"]
          ELSE [f EXCEPT !.outer = "returned",
                         !.outerResult =
                            IF f.result.k = "arr" /\ Len(f.result.a) >= 1
                               /\ Truthy(f.result.a[1])
                            THEN f.result.a[1] ELSE Arr(<<>>)]]
    /\ UNCHANGED <<Session, Env, modelDownloaded, files, uuid, budget>>

Fault(ok) ==
    /\ ~ok => budget > 0
    /\ budget' = IF ok THEN budget ELSE budget - 1

\* line 248 resumes: "[" was appended (or not), then embedderClient is entered
WriteOpen(c, ok) ==
    LET f == frames[c] IN
    /\ f.pc = "w_open"
    /\ Fault(ok)
    /\ files' = writeToTempfile(files, f.tmpFilePath, <<LB>>, ok)
    /\ frames' = [frames EXCEPT ![c] =
          EnterClient([f EXCEPT !.events = Append(@, Event("open", f.idx, ok))], f.idx)]
    /\ UNCHANGED <<Session, Env, modelDownloaded, uuid>>

\* lines 134-143: the import has resolved, the library's pipeline() is called
FetchImport(c) ==
    LET f == frames[c]
        redirect == ~modelDownloaded /\ f.hostOverride # NULL
        host == IF redirect THEN f.hostOverride ELSE envRemoteHost
        template == IF redirect THEN fallbackPathTemplate ELSE envRemotePathTemplate
    IN
    /\ f.pc = "fetch_import"
    /\ envRemoteHost' = host
    /\ envRemotePathTemplate' = template
    /\ frames' = [frames EXCEPT ![c] =
          [f EXCEPT !.pc = "fetch_load",
                    !.fetchLog = Append(@, [hostOverride |-> f.hostOverride,
                                            host |-> host, template |-> template,
                                            downloaded |-> modelDownloaded,
                                            outcome |-> "pending"])]]
    /\ UNCHANGED <<Session, modelDownloaded, files, uuid, budget>>

\* lines 145-171 and 185-201: the fetch settles and embedderClient goes on
FetchLoad(c, outcome) ==
    LET f == frames[c]
        n == Len(f.fetchLog)
        resp == fetchWithHost(f.hostOverride, outcome)
        step == embedderClientStep(n, resp)
        g == [f EXCEPT !.fetchLog[n].outcome = outcome]
    IN
    /\ f.pc = "fetch_load"
    /\ Fault(outcome = "ok")
    /\ modelDownloaded' = modelDownloadedAfter(step, modelDownloaded)
    /\ frames' = [frames EXCEPT ![c] =
          IF step = "return"
          THEN [g EXCEPT !.pc = IF f.kind = "embedderClient" THEN "done" ELSE "infer",
                         !.pipeline = resp.pipeline]
          ELSE IF step = "retry"
               THEN [g EXCEPT !.pc = "fetch_import", !.hostOverride = resp.retry]
          ELSE [g EXCEPT !.pc = "failed", !.error = resp.error]]
    /\ UNCHANGED <<Session, Env, files, uuid>>

\* an empty output of the last batch still closing the array
Infer_Closes(c, empty) ==
    LET f == frames[c]
        chunk == f.chunks[f.idx + 1]
        output == IF empty THEN Arr(<<>>)
                  ELSE Arr([i \in 1..Len(chunk) |-> Embed(chunk[i])])
        g == [f EXCEPT !.events = Append(@, Event("infer", f.idx, ~empty))]
        closed == IF f.chunkLen - 1 = f.idx
                  THEN writeToTempfile(files, f.tmpFilePath, <<RB>>, TRUE)
                  ELSE files
    IN
    /\ f.pc = "infer"
    /\ Fault(~empty)
    /\ IF Len(output.a) = 0
       THEN LET r == AfterBatch(g, closed) IN
            /\ frames' = [frames EXCEPT ![c] = r.frame]
            /\ files' = r.files
       ELSE /\ frames' = [frames EXCEPT ![c] =
                  [g EXCEPT !.pc = "w_data", !.output = output,
                            !.data = JSONstringify(output)]]
            /\ files' = files
    /\ UNCHANGED <<Session, Env, modelDownloaded, uuid>>

\* lines 251-264: the inference settles
Infer(c, empty) ==
    LET f == frames[c]
        chunk == f.chunks[f.idx + 1]
        output == IF empty THEN Arr(<<>>)
                  ELSE Arr([i \in 1..Len(chunk) |-> Embed(chunk[i])])
        g == [f EXCEPT !.events = Append(@, Event("infer", f.idx, ~empty))]
    IN
    /\ f.pc = "infer"
    /\ Fault(~empty)
    /\ IF Len(output.a) = 0
       THEN LET r == AfterBatch(g, files) IN
            /\ frames' = [frames EXCEPT ![c] = r.frame]
            /\ files' = r.files
       ELSE /\ frames' = [frames EXCEPT ![c] =
                  [g EXCEPT !.pc = "w_data", !.output = output,
                            !.data = JSONstringify(output)]]
            /\ files' = files
    /\ UNCHANGED <<Session, Env, modelDownloaded, uuid>>

\* lines 264-267: the fragment was appended (or not), next comes its separator
WriteData(c, ok) ==
    LET f == frames[c] IN
    /\ f.pc = "w_data"
    /\ Fault(ok)
    /\ files' = writeToTempfile(files, f.tmpFilePath, f.data, ok)
    /\ frames' = [frames EXCEPT ![c] =
          [f EXCEPT !.pc = separatorAfter(f.chunkLen, f.idx),
                    !.events = Append(@, Event("data", f.idx, ok))]]
    /\ UNCHANGED <<Session, Env, modelDownloaded, uuid>>

\* lines 266-271: "," was appended (or not); on to the next iteration
WriteComma(c, ok) ==
    LET f == frames[c]
        fs == writeToTempfile(files, f.tmpFilePath, <<CM>>, ok)
        r == AfterBatch([f EXCEPT !.events = Append(@, Event("comma", f.idx, ok))], fs)
    IN
    /\ f.pc = "w_comma"
    /\ Fault(ok)
    /\ frames' = [frames EXCEPT ![c] = r.frame]
    /\ files' = r.files
    /\ UNCHANGED <<Session, Env, modelDownloaded, uuid>>

\* lines 267-277: "]" was appended (or not); the loop ends, read-back follows
WriteClose(c, ok) ==
    LET f == frames[c]
        fs == writeToTempfile(files, f.tmpFilePath, <<RB>>, ok)
        r == AfterBatch([f EXCEPT !.events = Append(@, Event("close", f.idx, ok))], fs)
    IN
    /\ f.pc = "w_close"
    /\ Fault(ok)
    /\ frames' = [frames EXCEPT ![c] = r.frame]
    /\ files' = r.files
    /\ UNCHANGED <<Session, Env, modelDownloaded, uuid>>

\* a call resumes at one of its awaits; errors: what a fetch may reject with
ResumeWith(c, errors) ==
    \/ \E ok \in BOOLEAN : WriteOpen(c, ok)
    \/ FetchImport(c)
    \/ \E outcome \in {"ok"} \cup errors : FetchLoad(c, outcome)
    \/ \E empty \in BOOLEAN : Infer(c, empty)
    \/ \E ok \in BOOLEAN : WriteData(c, ok)
    \/ \E ok \in BOOLEAN : WriteComma(c, ok)
    \/ \E ok \in BOOLEAN : WriteClose(c, ok)

Resume(c) == ResumeWith(c, Errors)

\* one call on a freshly constructed session
Next ==
    \/ \E textChunks \in InputLists : embedChunks(1, textChunks)
    \/ \E text \in Texts : embedTextInput(1, Str(text))
    \/ embedderClient(1)
    \/ embedTextInputReturn(1)
    \/ Resume(1)

Spec == Init /\ [][Next]_vars

\* embedChunks calls on one session, interleaved at their awaits
NextConc ==
    \E c \in Calls :
        \/ \E textChunks \in ConcInputLists : embedChunks(c, textChunks)
        \/ ResumeWith(c, {"NetworkError"})

SpecConc == InitConc /\ [][NextConc]_vars

\* direct embedderClient calls on one session, interleaved at their awaits
NextClient ==
    \E c \in Calls :
        \/ embedderClient(c)
        \/ FetchImport(c)
        \/ \E outcome \in {"ok"} \cup Errors : FetchLoad(c, outcome)

SpecClient == Init /\ [][NextClient]_vars

\* one embedTextInput call, on a string or on an array of strings
NextQuery ==
    \/ \E text \in Texts : embedTextInput(1, Str(text))
    \/ \E texts \in QueryLists : embedTextInput(1, StrArray(texts))
    \/ embedTextInputReturn(1)
    \/ Resume(1)

SpecQuery == InitQuery /\ [][NextQuery]_vars

\* calls of all three public methods on copies of one text, in any interleaving
NextMixed ==
    \E c \in Calls :
        \/ embedderClient(c)
        \/ \E n \in 1..MaxConcTexts : embedChunks(c, [i \in 1..n |-> <<1>>])
        \/ embedTextInput(c, Str(<<1>>))
        \/ embedTextInputReturn(c)
        \/ ResumeWith(c, {"NetworkError"})

SpecMixed == InitMixed /\ [][NextMixed]_vars

\* one call on a session constructed under any EMBEDDING_MODEL_PREF
SpecResolve == InitResolve /\ [][Next]_vars

TypeOK ==
    /\ envPref \in AnyEnvPrefs
    /\ modelDownloaded \in BOOLEAN
    /\ uuid \in 0..Cardinality(Calls)
    /\ budget \in 0..MaxFaults

\* ------------------------------------------------------------ properties
IsEmbed(f) == f.kind \in {"embedChunks", "embedTextInput"}
Ended(f) == f.pc \in {"done", "failed"}
AppendOps == {"open", "data", "comma", "close"}

\* every append of the call so far succeeded
AppendsOk(f) ==
    \A i \in 1..Len(f.events) : f.events[i].op \in AppendOps => f.events[i].ok

\* no inference of the call so far returned an empty output
NoEmptyBatch(f) ==
    \A i \in 1..Len(f.events) : f.events[i].op = "infer" => f.events[i].ok

\* the call did not end in embedderClient's error
Acquired(f) == ~(f.pc = "failed" /\ f.error \in Errors)

\* what the inference capability produces for each text of a list
Vectors(texts) == [i \in 1..Len(texts) |-> Embed(texts[i])]

\* the last fetch of the call's current embedderClient succeeded
FetchSucceeded(f) ==
    /\ Len(f.fetchLog) >= 1
    /\ f.fetchLog[Len(f.fetchLog)].outcome = "ok"

\* embedderClient has handed its capability to its caller
GotCapability(f) ==
    /\ Acquired(f)
    /\ f.pc \notin {"fetch_import", "fetch_load"}
    /\ (f.pc = "infer" \/ f.kind = "embedderClient") => f.pipeline = "pipeline"

\* C1: a call on n >= 1 texts in which every acquisition succeeds, no batch comes
\* back empty and every append succeeds returns exactly the n vectors of its
\* texts, the i-th vector being that of the i-th text.
C1_OrderedVectors ==
    \A c \in Calls :
        LET f == frames[c] IN
        (/\ IsEmbed(f) /\ Ended(f) /\ Len(f.textChunks) >= 1
         /\ Acquired(f) /\ NoEmptyBatch(f) /\ AppendsOk(f))
        => /\ f.pc = "done"
           /\ f.result = Arr(Vectors(f.textChunks))

C1_Witness ==
    \E c \in Calls :
        LET f == frames[c] IN
        /\ f.kind = "embedChunks" /\ f.pc = "done"
        /\ Len(f.textChunks) >= 3 /\ f.chunkLen >= 2
        /\ f.textChunks[1] # f.textChunks[2]
        /\ NoEmptyBatch(f) /\ AppendsOk(f)
        /\ f.result = Arr(Vectors(f.textChunks))

\* C2: embedChunks called with an empty list completes normally and returns null.
C2_EmptyReturnsNull ==
    \A c \in Calls :
        LET f == frames[c] IN
        (f.kind = "embedChunks" /\ Ended(f) /\ f.textChunks = <<>>)
        => (f.pc = "done" /\ f.result = JNull)

\* C3: one embedderClient call makes at most two fetches; the first without a
\* host override; the second only after the first failed, against the fallback
\* host; a failed second fetch ends the call; a fetch that succeeded hands the
\* capability to the caller.
C3_SingleFallback ==
    \A c \in Calls :
        LET f == frames[c]
            log == f.fetchLog
        IN  /\ Len(log) <= 2
            /\ Len(log) >= 1 => log[1].hostOverride = NULL
            /\ Len(log) = 2 => /\ log[1].outcome \in Errors
                               /\ log[2].hostOverride = fallbackHost
            /\ (Len(log) = 2 /\ log[2].outcome \in Errors) => f.pc = "failed"
            /\ (Len(log) = 1 /\ log[1].outcome \in Errors) => f.pc = "fetch_import"
            /\ FetchSucceeded(f) => GotCapability(f)

C3_Witness ==
    \E c \in Calls :
        LET f == frames[c] IN
        /\ Len(f.fetchLog) = 2
        /\ f.fetchLog[1].outcome \in Errors
        /\ f.fetchLog[2].outcome = "ok"
        /\ f.pc \in {"infer", "done"}
        /\ f.pipeline = "pipeline"


\* (C4, state part) when both fetches of an embedderClient call fail, the call ends in the
\* error of the second (fallback) fetch; no step of a failing fetch changes
\* modelDownloaded; a call made after that failure whose fetch succeeds gets the
\* capability.
C4_FailedCall ==
    \A c \in Calls :
        LET f == frames[c] IN
        /\ (f.pc = "failed" /\ f.error \in Errors)
           => /\ Len(f.fetchLog) = 2
              /\ f.fetchLog[1].outcome \in Errors
              /\ f.error = f.fetchLog[2].outcome
        /\ \A d \in Calls :
              (/\ f.saw[d] = "failed" /\ frames[d].error \in Errors
               /\ FetchSucceeded(f))
              => GotCapability(f)

C4_FlagKept ==
    \A c \in Calls :
        (/\ frames[c].pc = "fetch_load"
         /\ frames'[c].pc \in {"fetch_import", "failed"})
        => modelDownloaded' = modelDownloaded

\* C4: in every state a failed call carries the error of its fallback fetch and
\* a later call with a successful fetch has the capability; every step of a
\* failing fetch leaves modelDownloaded unchanged.
C4_LastErrorPropagated == [] C4_FailedCall /\ [][C4_FlagKept]_vars

C4_Witness ==
    \E c, d \in Calls :
        /\ frames[c].pc = "failed" /\ frames[c].error \in Errors
        /\ frames[c].fetchLog[1].outcome # frames[c].fetchLog[2].outcome
        /\ frames[d].saw[c] = "failed"
        /\ FetchSucceeded(frames[d])
        /\ frames[d].pipeline = "pipeline"

\* the inference of batch i (1-based) of the call returned vectors
BatchKept(f, i) ==
    \E j \in 1..Len(f.events) :
        f.events[j].op = "infer" /\ f.events[j].idx = i - 1 /\ f.events[j].ok

\* the vectors of the batches that did not come back empty, in input order
Kept(f) ==
    flat([i \in 1..f.chunkLen |->
            IF BatchKept(f, i) THEN Arr(Vectors(f.chunks[i])) ELSE Arr(<<>>)])

\* C5: an empty inference result at any batch position is absorbed: when every
\* acquisition and every append succeeds the call completes without an error and
\* returns the vectors of the non-empty batches in input order.
C5_EmptyBatchAbsorbed ==
    \A c \in Calls :
        LET f == frames[c] IN
        (/\ IsEmbed(f) /\ Ended(f) /\ Len(f.textChunks) >= 1
         /\ Acquired(f) /\ AppendsOk(f))
        => /\ f.pc = "done"
           /\ f.result \in {Arr(Kept(f)), IF Kept(f) = <<>> THEN JNull ELSE Arr(Kept(f))}

\* number of vectors in an array of batches
RECURSIVE SumLen(_)
SumLen(s) == IF s = <<>> THEN 0 ELSE Len(s[1].a) + SumLen(Tail(s))

\* number of vectors serialised in the string data
DataVectors(data) == IF data = <<>> THEN 0 ELSE Len(JSONparse(data).val.a)

Max(a, b) == IF a > b THEN a ELSE b

\* most vectors any one local of the call holds
Held(f) ==
    Max(Max(Len(f.output.a), DataVectors(f.data)), SumLen(f.embeddingResults.a))

LoopPcs == {"w_open", "fetch_import", "fetch_load", "infer", "w_data", "w_comma", "w_close"}

\* C6 as stated: at every instant, read-back included, the call's locals hold at
\* most maxConcurrentChunks vectors.
C6_OneBatchAlways ==
    \A c \in Calls : IsEmbed(frames[c]) => Held(frames[c]) <= maxConcurrentChunks

\* C6 amended: inside the batch loop each local holds at most the vectors of the
\* current batch and nothing is held between iterations; the read-back holds all
\* vectors written to the scratch file at once.
C6_OneBatchInLoop ==
    \A c \in Calls :
        LET f == frames[c] IN
        IsEmbed(f) =>
        /\ Len(f.output.a) <= maxConcurrentChunks
        /\ DataVectors(f.data) <= maxConcurrentChunks
        /\ f.pc \in {"w_open", "fetch_import", "fetch_load", "infer"}
           => (f.output = JNull /\ f.data = <<>>)
        /\ f.pc \in {"w_data", "w_comma", "w_close"}
           => f.output = Arr(Vectors(f.chunks[f.idx + 1]))
        /\ f.pc \in LoopPcs => f.embeddingResults = JNull
        /\ (f.pc = "done" /\ AppendsOk(f))
           => SumLen(f.embeddingResults.a) = Len(Kept(f))

C6_Witness ==
    \E c \in Calls :
        LET f == frames[c] IN
        /\ IsEmbed(f) /\ f.pc = "done" /\ AppendsOk(f)
        /\ SumLen(f.embeddingResults.a) = Len(f.textChunks)
        /\ Len(f.textChunks) > maxConcurrentChunks

\* C7: once the batch loop has finished the scratch file is gone when the call
\* ends, whether it returned or failed at the parse.
C7_ScratchDeleted ==
    \A c \in Calls :
        LET f == frames[c] IN
        (IsEmbed(f) /\ Ended(f) /\ Acquired(f)) => ~files[f.tmpFilePath].exists

\* the JSON fragment of batch i (1-based)
Fragment(f, i) == JSONstringify(Arr(Vectors(f.chunks[i])))

\* what the appends of the call that succeeded have written, in order
RECURSIVE WrittenBy(_, _)
WrittenBy(f, n) ==
    IF n = 0 THEN <<>>
    ELSE LET e == f.events[n] IN
         WrittenBy(f, n - 1) \o
            (IF ~e.ok THEN <<>>
             ELSE IF e.op = "open" THEN <<LB>>
             ELSE IF e.op = "data" THEN Fragment(f, e.idx + 1)
             ELSE IF e.op = "comma" THEN <<CM>>
             ELSE IF e.op = "close" THEN <<RB>>
             ELSE <<>>)

Written(f) == WrittenBy(f, Len(f.events))

\* "[" and, for each non-empty batch among the first k, its fragment and comma
RECURSIVE ExpectedBefore(_, _)
ExpectedBefore(f, k) ==
    IF k = 0 THEN <<LB>>
    ELSE ExpectedBefore(f, k - 1) \o
            (IF BatchKept(f, k) THEN Fragment(f, k) \o <<CM>> ELSE <<>>)

AcquisitionFailed(f) == IsEmbed(f) /\ f.pc = "failed" /\ f.error \in Errors

\* nothing of batch f.idx or a later one was inferred or appended, and the call
\* ended at the acquisition of batch f.idx without a read-back
StoppedAtAcquisition(f) ==
    /\ \A i \in 1..Len(f.events) :
          f.events[i].op \in {"infer", "data", "comma", "close"} => f.events[i].idx < f.idx
    /\ f.events[Len(f.events)] = [op |-> "acquire", idx |-> f.idx, ok |-> TRUE]
    /\ f.embeddingResults = JNull /\ f.result = JNull

\* C8 as stated: after an acquisition failure at batch k the scratch file is on
\* disk and holds the opening bracket and the fragments of the batches before k.
C8_ScratchLeftWithBracket ==
    \A c \in Calls :
        LET f == frames[c] IN
        AcquisitionFailed(f) =>
        /\ StoppedAtAcquisition(f)
        /\ files[f.tmpFilePath].exists
        /\ files[f.tmpFilePath].content = ExpectedBefore(f, f.idx)

\* C8 amended: the file is not deleted and holds exactly what the appends that
\* succeeded before the failure wrote; it is on disk when one of them succeeded,
\* and holds the bracket and the fragments when all of them succeeded.
C8_ScratchLeftAsWritten ==
    \A c \in Calls :
        LET f == frames[c]
            file == files[f.tmpFilePath]
        IN  AcquisitionFailed(f) =>
            /\ StoppedAtAcquisition(f)
            /\ file.content = Written(f)
            /\ file.exists = (Written(f) # <<>>)
            /\ AppendsOk(f) => (file.exists /\ file.content = ExpectedBefore(f, f.idx))

C8_Witness ==
    \E c \in Calls :
        LET f == frames[c] IN
        /\ AcquisitionFailed(f) /\ f.idx >= 1 /\ AppendsOk(f) /\ BatchKept(f, 1)
        /\ files[f.tmpFilePath].exists
        /\ files[f.tmpFilePath].content = <<LB>> \o Fragment(f, 1) \o <<CM>>

\* C9: embedTextInput never raises when acquisition and appends succeed: it
\* returns the vector of the prefixed text, or an empty vector when the inference
\* returned an empty output.
C9_SingleTextOrEmpty ==
    \A c \in Calls :
        LET f == frames[c] IN
        (f.kind = "embedTextInput" /\ ~isArray(f.textInput) /\ Acquired(f) /\ AppendsOk(f))
        => /\ f.outer # "failed"
           /\ f.outer = "returned"
              => f.outerResult = IF NoEmptyBatch(f)
                                 THEN Embed(valueOf(applyQueryPrefix(model, f.textInput)))
                                 ELSE Arr(<<>>)

\* what the read-back returns for a file content
ReadBack(content) ==
    LET r == JSONparse(content) IN
    IF Len(r.val.a) > 0 THEN Arr(flat(r.val.a)) ELSE JNull

\* (C10, state part) concurrent calls have different scratch files; a file holds only what
\* its own call appended and is changed only by a step of its own call; a call
\* returns what its own appends produce, which is the vectors of its own input in
\* input order when none of its own steps failed.
C10_OwnFile ==
    \A c \in Calls :
        LET f == frames[c] IN
        IsEmbed(f) =>
        /\ \A d \in Calls \ {c} : IsEmbed(frames[d]) => frames[d].tmpFilePath # f.tmpFilePath
        /\ f.pc # "done" => files[f.tmpFilePath].content = Written(f)
        /\ f.pc = "done" => (~files[f.tmpFilePath].exists /\ f.result = ReadBack(Written(f)))
        /\ (Ended(f) /\ Len(f.textChunks) >= 1 /\ Acquired(f) /\ NoEmptyBatch(f) /\ AppendsOk(f))
           => (f.pc = "done" /\ f.result = Arr(Vectors(f.textChunks)))

C10_OwnWrites ==
    \A p \in FileNames :
        files'[p] # files[p]
        => \E c \in Calls : frames'[c] # frames[c] /\ frames'[c].tmpFilePath = p

\* C10: under every interleaving each call has, writes, reads and deletes only
\* its own scratch file and returns the vectors of its own input in input order.
C10_Isolation == [] C10_OwnFile /\ [][C10_OwnWrites]_vars

C10_Witness ==
    /\ \A c \in Calls :
          /\ frames[c].kind = "embedChunks" /\ frames[c].pc = "done"
          /\ frames[c].chunkLen >= 2
          /\ frames[c].result = Arr(Vectors(frames[c].textChunks))
    /\ \E c, d \in Calls :
          /\ frames[d].saw[c] = "running"
          /\ frames[c].textChunks # frames[d].textChunks

\* ---------------------------------------------------------------- C11
\* C11: resolving the model raises nothing; a supported identifier resolves to
\* itself, an unset, empty or unsupported one to the default model, and the
\* descriptor is the registry entry of the resolved identifier.
C11_ResolvesToDefault ==
    /\ envPref \in DOMAIN supportedModels => model = envPref
    /\ envPref \notin DOMAIN supportedModels => model = defaultModel
    /\ model \in DOMAIN supportedModels
    /\ getEmbedderInfo(envPref) = supportedModels[model]

\* ---------------------------------------------------------------- C12
\* C12: applying the query prefix keeps the shape of the input (a string stays
\* a string, an array stays an array of the same length and order); with an
\* empty queryPrefix the input is returned unchanged, otherwise every string is
\* queryPrefix followed by the original string and nothing else.
C12_PrefixKeepsShape ==
    \A c \in Calls :
        LET f == frames[c]
            prefix == queryPrefix(model)
            in == f.textInput
            out == f.prefixed
        IN  f.kind = "embedTextInput"
            => /\ isArray(out) = isArray(in)
               /\ prefix = <<>> => out = in
               /\ (prefix # <<>> /\ ~isArray(in))
                  => /\ SubSeq(valueOf(out), 1, Len(prefix)) = prefix
                     /\ SubSeq(valueOf(out), Len(prefix) + 1, Len(valueOf(out))) = valueOf(in)
               /\ (prefix # <<>> /\ isArray(in))
                  => /\ Len(valueOf(out)) = Len(valueOf(in))
                     /\ \A i \in 1..Len(valueOf(in)) :
                           /\ SubSeq(valueOf(out)[i], 1, Len(prefix)) = prefix
                           /\ SubSeq(valueOf(out)[i], Len(prefix) + 1, Len(valueOf(out)[i])) = valueOf(in)[i]

C12_Witness ==
    \E c \in Calls :
        LET f == frames[c] IN
        /\ f.kind = "embedTextInput" /\ queryPrefix(model) # <<>>
        /\ isArray(f.textInput) /\ Len(valueOf(f.textInput)) = 2
        /\ valueOf(f.textInput)[1] # valueOf(f.textInput)[2]
        /\ f.textChunks = valueOf(f.prefixed)
        /\ f.pc = "done"

\* ---------------------------------------------------------------- C13
IsInfer(e) == e.op = "infer"

\* the inference capability answered the batches of both calls alike
SameInference(f, g) == SelectSeq(f.events, IsInfer) = SelectSeq(g.events, IsInfer)

\* call d was made after call c had returned, with the same input
Repeats(c, d) ==
    /\ frames[c].kind = "embedChunks" /\ frames[d].kind = "embedChunks"
    /\ frames[d].saw[c] = "done"
    /\ frames[d].textChunks = frames[c].textChunks

C14_PrimaryThenFallback ==
    \A c \in Calls :
        LET log == frames[c].fetchLog IN
        /\ Len(log) >= 1 => /\ log[1].host = primaryHost
                            /\ log[1].template = primaryPathTemplate
        /\ Len(log) = 2 => /\ log[2].host = fallbackHost
                           /\ log[2].template = fallbackPathTemplate

\* ---------------------------------------------------------------- C15
\* C15: modelDownloaded is monotone: no step of any call, failing ones included,
\* sets it back to false, and the only step that changes it is a fetch that
\* succeeded, which sets it to true.
C15_FlagMonotone ==
    [][/\ modelDownloaded => modelDownloaded'
       /\ modelDownloaded' # modelDownloaded
          => \E c \in Calls :
                /\ frames[c].pc = "fetch_load"
                /\ FetchSucceeded(frames'[c])
                /\ frames'[c].pipeline = "pipeline"]_vars

C15_Witness ==
    /\ modelDownloaded
    /\ \E c, d \in Calls :
          /\ frames[c].pc = "failed" /\ frames[c].error \in Errors
          /\ frames[c].fetchLog[1].downloaded
          /\ frames[d].kind = "embedTextInput" /\ frames[d].outer = "returned"
          /\ frames[c].saw[d] = "running"

\* ---------------------------------------------------------------- C16
RECURSIVE Concat(_)
Concat(seqs) == IF seqs = <<>> THEN <<>> ELSE Head(seqs) \o Concat(Tail(seqs))

\* the steps of batch i that may come right before the acquisition of batch i + 1
EndsBatch(e, i) ==
    /\ e.idx = i
    /\ \/ e.op = "comma"
       \/ e.op = "infer" /\ ~e.ok

\* event k of a call comes where the loop of embedChunks puts it
InLoopOrder(f, k) ==
    LET e == f.events[k] IN
    CASE e.op = "open" -> k = 1 /\ e.idx = 0
      [] e.op = "acquire" -> /\ k > 1
                             /\ IF e.idx = 0 THEN f.events[k - 1].op = "open"
                                ELSE EndsBatch(f.events[k - 1], e.idx - 1)
      [] e.op = "infer" -> /\ k > 1 /\ f.events[k - 1].op = "acquire"
                           /\ f.events[k - 1].idx = e.idx
      [] e.op = "data" -> /\ k > 1 /\ f.events[k - 1].op = "infer"
                          /\ f.events[k - 1].idx = e.idx /\ f.events[k - 1].ok
      [] OTHER -> /\ k > 1 /\ f.events[k - 1].op = "data"
                  /\ f.events[k - 1].idx = e.idx

\* C16: the batches are consecutive slices of the input, each of 1 to
\* maxConcurrentChunks texts, processed one after the other in input order: per
\* batch one acquisition, then one inference on that batch, then the appends of
\* that batch, and the acquisition of the next batch only after those appends;
\* a call never has two inferences in flight.
C16_SequentialBatches ==
    \A c \in Calls :
        LET f == frames[c] IN
        IsEmbed(f)
        => /\ Concat(f.chunks) = f.textChunks
           /\ \A i \in 1..Len(f.chunks) : Len(f.chunks[i]) \in 1..maxConcurrentChunks
           /\ \A k \in 1..Len(f.events) : InLoopOrder(f, k)
           /\ \A k, l \in 1..Len(f.events) :
                 (k < l /\ f.events[k].op = f.events[l].op)
                 => f.events[k].idx < f.events[l].idx
           /\ f.pc \in {"fetch_import", "fetch_load", "infer"}
              => /\ f.events[Len(f.events)] = Event("acquire", f.idx, TRUE)
                 /\ f.idx < f.chunkLen
           /\ f.pc = "w_data"
              => /\ f.events[Len(f.events)] = Event("infer", f.idx, TRUE)
                 /\ f.output = Arr(Vectors(f.chunks[f.idx + 1]))

C16_Witness ==
    \E c \in Calls :
        LET f == frames[c] IN
        /\ f.kind = "embedChunks" /\ f.pc = "done" /\ f.chunkLen = 3
        /\ [k \in 1..Len(f.events) |-> <<f.events[k].op, f.events[k].idx>>]
           = << <<"open", 0>>, <<"acquire", 0>>, <<"infer", 0>>, <<"data", 0>>,
                <<"comma", 0>>, <<"acquire", 1>>, <<"infer", 1>>,
                <<"acquire", 2>>, <<"infer", 2>>, <<"data", 2>>, <<"close", 2>> >>

\* ---------------------------------------------------------------- C17
IsPrefix(s, t) == Len(s) <= Len(t) /\ SubSeq(t, 1, Len(s)) = s

\* "[", then the fragments of the first k batches with a comma after each
RECURSIVE Opened(_, _)
Opened(f, k) ==
    IF k = 0 THEN <<LB>> ELSE Opened(f, k - 1) \o Fragment(f, k) \o <<CM>>

\* what the protocol has put into the scratch file when the call is at f.pc
\* in batch f.idx
Protocol(f) ==
    IF f.pc \in {"fetch_import", "fetch_load", "infer", "w_data"} THEN Opened(f, f.idx)
    ELSE Opened(f, f.idx) \o Fragment(f, f.idx + 1)

\* (C17, state part) in a call over m >= 1 batches in which no batch came back
\* empty and no append failed, the scratch file does not exist before "[" is
\* appended, holds exactly what the protocol has put there so far while the loop
\* runs, and is read back as the array of the m fragments.
C17_FileContent ==
    \A c \in Calls :
        LET f == frames[c]
            file == files[f.tmpFilePath]
        IN  (IsEmbed(f) /\ f.chunkLen >= 1 /\ NoEmptyBatch(f) /\ AppendsOk(f))
            => /\ f.pc = "w_open" => ~file.exists
               /\ f.pc \in LoopPcs \ {"w_open"}
                  => file.exists /\ file.content = Protocol(f)
               /\ AcquisitionFailed(f) => file.content = Opened(f, f.idx)
               /\ ~AcquisitionFailed(f) /\ Ended(f)
                  => /\ f.pc = "done"
                     /\ f.embeddingResults =
                           Arr([i \in 1..f.chunkLen |-> Arr(Vectors(f.chunks[i]))])
                     /\ JSONstringify(f.embeddingResults)
                           = Opened(f, f.chunkLen - 1) \o Fragment(f, f.chunkLen) \o <<RB>>

\* no step takes anything out of a scratch file that is still there after it
C17_AppendOnly ==
    \A p \in FileNames :
        (files[p].exists /\ files'[p].exists) => IsPrefix(files[p].content, files'[p].content)

\* C17: in a call over m >= 1 batches with no empty batch and no failed append
\* the scratch file is append-only and follows the protocol: "[" once before the
\* first acquisition, one fragment per batch in batch order, one comma after
\* every fragment but the last, "]" once after the last fragment; what is read
\* back is a well-formed JSON array of the m fragments.
C17_ScratchProtocol == [] C17_FileContent /\ [][C17_AppendOnly]_vars

C17_Witness ==
    \E c \in Calls :
        LET f == frames[c] IN
        /\ f.kind = "embedChunks" /\ f.chunkLen = 3 /\ f.pc = "w_close"
        /\ NoEmptyBatch(f) /\ AppendsOk(f)
        /\ files[f.tmpFilePath].content
              = <<LB>> \o Fragment(f, 1) \o <<CM>> \o Fragment(f, 2) \o <<CM>>
                \o Fragment(f, 3)

\* ---------------------------------------------------------------- C18
\* C18: a failed append is swallowed and not retried, and it never yields a
\* silently wrong result: a call in which an append failed (and whose
\* acquisitions succeeded) returns no value: it ends in the error of the
\* read-back.
C18_FailedAppendEndsInParseError ==
    \A c \in Calls :
        LET f == frames[c] IN
        (IsEmbed(f) /\ Ended(f) /\ Acquired(f) /\ ~AppendsOk(f))
        => (f.pc = "failed" /\ f.error \in {"SyntaxError", "ENOENT"})

\* ---------------------------------------------------------------- C19
\* C19: a call whose appends all succeed never returns null: whatever the input,
\* the acquisition failures and the empty outputs, it returns a list of at least
\* one vector or ends in an error; null is returned only after a failed append.
C19_NullOnlyAfterFailedAppend ==
    \A c \in Calls :
        LET f == frames[c] IN
        /\ (IsEmbed(f) /\ Ended(f) /\ AppendsOk(f))
           => \/ f.pc = "failed"
              \/ /\ f.result.k = "arr" /\ Len(f.result.a) >= 1
                 /\ \A i \in 1..Len(f.result.a) : f.result.a[i].k = "arr"
        /\ (IsEmbed(f) /\ f.pc = "done" /\ f.result = JNull) => ~AppendsOk(f)

C19_Witness ==
    \E c \in Calls :
        LET f == frames[c] IN
        /\ f.kind = "embedChunks" /\ f.pc = "done" /\ AppendsOk(f)
        /\ ~NoEmptyBatch(f) /\ f.chunkLen >= 2
        /\ Len(f.fetchLog) = 2
        /\ f.result.k = "arr" /\ Len(f.result.a) >= 1
====
